---- MODULE Spec2Model ----
(***************************************************************************)
(* Model of amazonjobscript.py: runs of AmazonJobsTracker (main: __init__, *)
(* then check_new_jobs, the second definition in the class, which is the   *)
(* one Python keeps) sharing the MongoDB collection seen_jobs.  A run      *)
(* walks the search terms, asks is_job_seen and is_recent_posting for      *)
(* every job of a response, records each new job with mark_job_seen (an    *)
(* update_one upsert), then de-duplicates its list and calls send_email.   *)
(* The collection carries the TTL index on created_at and the unique       *)
(* index on job_id when initialize_ttl_index managed to create them.       *)
(* Time is in seconds.  A run's steps are cut at its calls to the store.   *)
(***************************************************************************)
EXTENDS Integers, Sequences, FiniteSets, TLC

\* ---- bounds of the model ----
NumRuns == 2
NumJobs == 2
NumSearches == 2
MaxResults == 1
MaxDays == 31
MaxJitter == 1

\* ---- program constants ----
Day == 24 * 60 * 60
ExpireAfterSeconds == 30 * 24 * 60 * 60
RecentDays == 1

Runs == 1..NumRuns
JobIds == 1..NumJobs
Titles == <<"t1", "t2">>
Unparsable == -1

\* the day a posting's date string names (a posting keeps its date across
\* searches; the date of postings past the second is one strptime rejects)
PostedOn(id) == IF id = 1 THEN 0 ELSE IF id = 2 THEN 30 ELSE Unparsable

\* the metadata the search serves for a posting changes between runs, not
\* within one
TitleAt(r) == Titles[((r - 1) % Len(Titles)) + 1]

\* the jobs a search response of run r can list: id_icims, the metadata and
\* the posting date
Jobs(r) == {[id_icims |-> id, title |-> TitleAt(r), posted_date |-> PostedOn(id)] :
               id \in JobIds}

VARIABLES now, reachable, store, indexes,
          pc, term, fetched, cur, rec, matched, new_jobs, sent,
          written, began

vars == <<now, reachable, store, indexes,
          pc, term, fetched, cur, rec, matched, new_jobs, sent,
          written, began>>

envVars == <<now, reachable>>
storeVars == <<store, indexes>>
ghostVars == <<written, began>>

\* ---- pure helpers ----

\* documents of the collection that match {"job_id": job_id}
Matching(job_id) == {d \in store : d.job_id = job_id}

\* a document whose TTL has run out: created_at + expireAfterSeconds <= now
Expired(d) == d.created_at + ExpireAfterSeconds <= now

is_recent_posting(posted_date, days) ==
    IF posted_date = Unparsable
    THEN FALSE
    ELSE ((now - posted_date * Day) \div Day) <= days

\* find_one + "result is not None"; the except branch returns False
is_job_seen(job_id) ==
    IF reachable THEN Matching(job_id) # {} ELSE FALSE

\* the job_record dict of mark_job_seen: three reads of the clock, in the
\* order created_at, last_seen, first_seen_date
job_record(job, t1, t2, t3) ==
    [job_id |-> job.id_icims,
     created_at |-> t1,
     last_seen |-> t2,
     title |-> job.title,
     posted_date |-> job.posted_date,
     first_seen_date |-> t3]

\* {"$set": job_record} on a stored document: every field of the record
\* overwrites the stored one, _id stays
SetFields(d, r) ==
    [_id |-> d._id,
     job_id |-> r.job_id,
     created_at |-> r.created_at,
     last_seen |-> r.last_seen,
     title |-> r.title,
     posted_date |-> r.posted_date,
     first_seen_date |-> r.first_seen_date]

\* the _id of an inserted document: one no stored document carries
FreshId == CHOOSE i \in 1..(Cardinality(store) + 1) :
              /\ \A d \in store : d._id # i
              /\ \A j \in 1..(i - 1) : \E d \in store : d._id = j

RECURSIVE DedupFrom(_, _, _)
DedupFrom(jobs, i, seen) ==
    IF i > Len(jobs)
    THEN <<>>
    ELSE IF jobs[i].id_icims \notin seen
         THEN <<jobs[i]>> \o DedupFrom(jobs, i + 1, seen \cup {jobs[i].id_icims})
         ELSE DedupFrom(jobs, i + 1, seen)

\* the pass with the membership test left out
unique_new_jobs_unchecked(jobs) == jobs

\* "Remove duplicates while preserving order"
unique_new_jobs(jobs) == DedupFrom(jobs, 1, {})

NoJob == [id_icims |-> 0, title |-> "", posted_date |-> Unparsable]
NoRecord == job_record(NoJob, 0, 0, 0)

Init ==
    /\ now = 0
    /\ reachable = TRUE
    /\ store = {}
    /\ indexes = {}
    /\ pc = [r \in Runs |-> "init"]
    /\ term = [r \in Runs |-> 1]
    /\ fetched = [r \in Runs |-> 0]
    /\ cur = [r \in Runs |-> NoJob]
    /\ rec = [r \in Runs |-> NoRecord]
    /\ matched = [r \in Runs |-> FALSE]
    /\ new_jobs = [r \in Runs |-> <<>>]
    /\ sent = [r \in Runs |-> <<>>]
    /\ written = [r \in Runs |-> {}]
    /\ began = [r \in Runs |-> {}]

\* ---- the environment: the clock, the network, the TTL monitor ----

Tick(d) ==
    /\ (now + d) \div Day <= MaxDays
    /\ now' = now + d
    /\ UNCHANGED <<reachable, storeVars, pc, term, fetched, cur, rec, matched,
                   new_jobs, sent, ghostVars>>

\* the connection to the cluster drops
outage ==
    /\ reachable
    /\ reachable' = FALSE
    /\ UNCHANGED <<now, storeVars, pc, term, fetched, cur, rec, matched,
                   new_jobs, sent, ghostVars>>

recover ==
    /\ ~reachable
    /\ reachable' = TRUE
    /\ UNCHANGED <<now, storeVars, pc, term, fetched, cur, rec, matched,
                   new_jobs, sent, ghostVars>>

\* MongoDB's background TTL pass over the created_at index
ttl_monitor ==
    /\ "ttl" \in indexes
    /\ \E d \in store : Expired(d)
    /\ store' = {d \in store : ~Expired(d)}
    /\ UNCHANGED <<envVars, indexes, pc, term, fetched, cur, rec, matched,
                   new_jobs, sent, ghostVars>>

\* ---- one run of the tracker: __init__, then check_new_jobs ----

\* began logs the runs that had ended when run r started

StartRun(r) ==
    /\ pc' = [pc EXCEPT ![r] = "jobs"]
    /\ began' = [began EXCEPT ![r] = {q \in Runs : pc[q] = "done"}]
    /\ UNCHANGED <<envVars, store, term, fetched, cur, rec, matched,
                   new_jobs, sent, written>>

\* ping raises: __init__ re-raises and main ends without a check
connect_failed(r) ==
    /\ pc[r] = "init"
    /\ ~reachable
    /\ pc' = [pc EXCEPT ![r] = "done"]
    /\ UNCHANGED <<envVars, storeVars, term, fetched, cur, rec, matched,
                   new_jobs, sent, ghostVars>>

\* both create_index calls go through; the unique index cannot be built over
\* duplicate keys, which raises into the except branch
initialize_ttl_index(r) ==
    /\ pc[r] = "init"
    /\ reachable
    /\ indexes' = IF \A d1, d2 \in store : d1.job_id = d2.job_id => d1 = d2
                  THEN indexes \cup {"ttl", "unique"}
                  ELSE indexes \cup {"ttl"}
    /\ StartRun(r)

\* the first create_index call raises (a timeout, an OperationFailure): the
\* except branch prints, the second call is skipped and the run goes on
initialize_ttl_index_error(r) ==
    /\ pc[r] = "init"
    /\ reachable
    /\ indexes' = indexes
    /\ StartRun(r)

\* "for search_term in searches": on to the next request, or out of the loop
NextTerm(r) ==
    IF term[r] < NumSearches
    THEN /\ term' = [term EXCEPT ![r] = term[r] + 1]
         /\ pc' = pc
    ELSE /\ term' = term
         /\ pc' = [pc EXCEPT ![r] = "dedup"]

\* http.request answers another status code, or the request or the JSON
\* decoding raises: the search term yields no job
search_error(r) ==
    /\ pc[r] = "jobs"
    /\ fetched[r] = 0
    /\ NextTerm(r)
    /\ fetched' = fetched
    /\ UNCHANGED <<envVars, storeVars, cur, rec, matched, new_jobs,
                   sent, ghostVars>>

\* the body of "for job in jobs" up to the call of mark_job_seen
next_job(r, job) ==
    /\ pc[r] = "jobs"
    /\ fetched[r] < MaxResults
    /\ fetched' = [fetched EXCEPT ![r] = fetched[r] + 1]
    /\ IF ~is_job_seen(job.id_icims)
          /\ is_recent_posting(job.posted_date, RecentDays)
       THEN /\ new_jobs' = [new_jobs EXCEPT ![r] = Append(new_jobs[r], job)]
            /\ cur' = [cur EXCEPT ![r] = job]
            /\ pc' = [pc EXCEPT ![r] = "mark"]
       ELSE UNCHANGED <<new_jobs, cur, pc>>
    /\ UNCHANGED <<envVars, storeVars, term, rec, matched, sent, ghostVars>>

\* the response's job list is exhausted
end_jobs(r) ==
    /\ pc[r] = "jobs"
    /\ NextTerm(r)
    /\ fetched' = [fetched EXCEPT ![r] = 0]
    /\ UNCHANGED <<envVars, storeVars, cur, rec, matched, new_jobs,
                   sent, ghostVars>>

\* mark_job_seen returns to the loop of check_new_jobs; written logs the
\* job_ids whose record this run's update_one wrote
MarkReturned(r, wrote) ==
    /\ pc' = [pc EXCEPT ![r] = "jobs"]
    /\ cur' = [cur EXCEPT ![r] = NoJob]
    /\ rec' = [rec EXCEPT ![r] = NoRecord]
    /\ matched' = [matched EXCEPT ![r] = FALSE]
    /\ written' = [written EXCEPT ![r] =
                     IF wrote THEN written[r] \cup {cur[r].id_icims}
                     ELSE written[r]]
    /\ UNCHANGED <<reachable, indexes, term, fetched, new_jobs, sent, began>>

\* mark_job_seen up to the point where update_one has matched its filter;
\* d1 and d2 are what the clock advanced between the three utcnow() reads
mark_job_seen(r, d1, d2) ==
    /\ pc[r] = "mark"
    /\ reachable
    /\ (now % Day) + d1 + d2 <= MaxJitter
    /\ now' = now + d1 + d2
    /\ rec' = [rec EXCEPT ![r] = job_record(cur[r], now, now + d1, now + d1 + d2)]
    /\ matched' = [matched EXCEPT ![r] = Matching(cur[r].id_icims) # {}]
    /\ pc' = [pc EXCEPT ![r] = "upsert"]
    /\ UNCHANGED <<reachable, storeVars, term, fetched, cur, new_jobs, sent,
                   ghostVars>>

\* update_one raises: the except branch prints and mark_job_seen returns
mark_job_seen_error(r, d1, d2) ==
    /\ pc[r] = "mark"
    /\ ~reachable
    /\ (now % Day) + d1 + d2 <= MaxJitter
    /\ now' = now + d1 + d2
    /\ store' = store
    /\ MarkReturned(r, FALSE)

\* update_one found the document: $set on it
upsert_update(r) ==
    /\ pc[r] = "upsert"
    /\ matched[r]
    /\ \E d \in Matching(rec[r].job_id) :
         store' = (store \ {d}) \cup {SetFields(d, rec[r])}
    /\ now' = now
    /\ MarkReturned(r, TRUE)

\* update_one found no document (or it was purged meanwhile): insert
upsert_insert(r) ==
    /\ pc[r] = "upsert"
    /\ matched[r] => Matching(rec[r].job_id) = {}
    /\ ~("unique" \in indexes /\ Matching(rec[r].job_id) # {})
    /\ store' = store \cup {SetFields([_id |-> FreshId], rec[r])}
    /\ now' = now
    /\ MarkReturned(r, TRUE)

\* the insert hits the unique index on job_id: the server either retries the
\* upsert as an update of the document now there, or DuplicateKeyError
\* reaches mark_job_seen's except branch
upsert_duplicate_key(r, retry) ==
    /\ pc[r] = "upsert"
    /\ ~matched[r]
    /\ "unique" \in indexes /\ Matching(rec[r].job_id) # {}
    /\ IF retry
       THEN \E d \in Matching(rec[r].job_id) :
              store' = (store \ {d}) \cup {SetFields(d, rec[r])}
       ELSE store' = store
    /\ now' = now
    /\ MarkReturned(r, retry)

\* send_email: delivered tells whether the SMTP exchange went through (a
\* failure is printed, not raised); the call is logged with what it was given
send_email(r, jobs, delivered) ==
    IF jobs = <<>>
    THEN sent' = sent
    ELSE sent' = [sent EXCEPT ![r] =
                    Append(sent[r], [jobs |-> jobs, delivered |-> delivered])]

\* the tail of check_new_jobs: de-duplicate, then send_email if anything is
\* left
finish(r, delivered) ==
    /\ pc[r] = "dedup"
    /\ pc' = [pc EXCEPT ![r] = "done"]
    /\ IF unique_new_jobs(new_jobs[r]) # <<>>
       THEN send_email(r, unique_new_jobs(new_jobs[r]), delivered)
       ELSE sent' = sent /\ delivered  \* no call: nothing to deliver
    /\ UNCHANGED <<envVars, storeVars, term, fetched, cur, rec, matched,
                   new_jobs, ghostVars>>

Next ==
    \/ Tick(31 * Day)
    \/ outage
    \/ recover
    \/ ttl_monitor
    \/ \E r \in Runs :
         \/ connect_failed(r)
         \/ initialize_ttl_index(r)
         \/ initialize_ttl_index_error(r)
         \/ search_error(r)
         \/ \E job \in Jobs(r) : next_job(r, job)
         \/ end_jobs(r)
         \/ \E d1, d2 \in 0..MaxJitter : mark_job_seen(r, d1, d2)
         \/ \E d1, d2 \in 0..MaxJitter : mark_job_seen_error(r, d1, d2)
         \/ upsert_update(r)
         \/ upsert_insert(r)
         \/ \E retry \in BOOLEAN : upsert_duplicate_key(r, retry)
         \/ \E delivered \in BOOLEAN : finish(r, delivered)

Spec == Init /\ [][Next]_vars

\* ---- a single run, with no other tracker process on the collection ----

InitSingle ==
    /\ now = 0
    /\ reachable = TRUE
    /\ store = {}
    /\ indexes = {}
    /\ pc = [r \in Runs |-> IF r = 1 THEN "init" ELSE "done"]
    /\ term = [r \in Runs |-> 1]
    /\ fetched = [r \in Runs |-> 0]
    /\ cur = [r \in Runs |-> NoJob]
    /\ rec = [r \in Runs |-> NoRecord]
    /\ matched = [r \in Runs |-> FALSE]
    /\ new_jobs = [r \in Runs |-> <<>>]
    /\ sent = [r \in Runs |-> <<>>]
    /\ written = [r \in Runs |-> {}]
    /\ began = [r \in Runs |-> {}]

\* alone on the collection, an insert never meets a key inserted meanwhile
NextSingle ==
    \/ Tick(31 * Day)
    \/ outage
    \/ recover
    \/ ttl_monitor
    \/ connect_failed(1)
    \/ initialize_ttl_index(1)
    \/ initialize_ttl_index_error(1)
    \/ search_error(1)
    \/ \E job \in Jobs(1) : next_job(1, job)
    \/ end_jobs(1)
    \/ \E d1, d2 \in 0..MaxJitter : mark_job_seen(1, d1, d2)
    \/ \E d1, d2 \in 0..MaxJitter : mark_job_seen_error(1, d1, d2)
    \/ upsert_update(1)
    \/ upsert_insert(1)
    \/ \E delivered \in BOOLEAN : finish(1, delivered)

SpecSingle == InitSingle /\ [][NextSingle]_vars

\* ---- properties ----

IdsOf(jobs) == {jobs[i].id_icims : i \in 1..Len(jobs)}

\* the job_ids run r has handed to send_email
Handed(r) == UNION {IdsOf(sent[r][k].jobs) : k \in 1..Len(sent[r])}

\* how often job_id occurs in the lists run r has handed to send_email
TimesHanded(r, id) ==
    Cardinality({<<k, i>> \in (1..Len(sent[r])) \X (1..(NumSearches * MaxResults)) :
                    /\ i <= Len(sent[r][k].jobs)
                    /\ sent[r][k].jobs[i].id_icims = id})

\* C1: over any runs on the same collection, overlapping or not, failing
\* lookups and upserts included, a job_id is handed to send_email at most once
\* while the retention window of its record has not elapsed.  Stated for the
\* states in which the record is stored and no window can have elapsed yet:
\* less than the retention has passed since the collection was empty.
C1_AtMostOncePerWindow ==
    \A id \in JobIds :
        (now < ExpireAfterSeconds /\ Matching(id) # {}) =>
            /\ \A r \in Runs : TimesHanded(r, id) <= 1
            /\ \A r1, r2 \in Runs :
                 (id \in Handed(r1) /\ id \in Handed(r2)) => r1 = r2

\* C2: is_job_seen is False for a job_id with no record, and True in the
\* state in which mark_job_seen of that job_id has just returned.
C2_SeenAfterMark ==
    [][ /\ \A id \in JobIds : Matching(id) = {} => ~is_job_seen(id)
        /\ \A r \in Runs :
             (pc[r] \in {"mark", "upsert"} /\ pc'[r] = "jobs") =>
                 (reachable' /\ \E d \in store' : d.job_id = cur[r].id_icims)
      ]_vars

\* C3: whenever every record of a job_id has created_at plus the retention in
\* the past, is_job_seen of it is False, purged or not; while a record has
\* not reached that bound, a lookup that goes through is True.
C3_ExpiryObservable ==
    \A id \in JobIds :
        /\ (\A d \in Matching(id) : d.created_at + ExpireAfterSeconds < now)
              => ~is_job_seen(id)
        /\ (reachable /\ \E d \in Matching(id) :
                            d.created_at + ExpireAfterSeconds >= now)
              => is_job_seen(id)

\* C4: with the store out of reach, is_job_seen and mark_job_seen end in an
\* error of their own: the lookup is not taken for "not seen" (the job does
\* not go on to be recorded and reported), and mark_job_seen does not return
\* to the loop as if it had recorded the job.
C4_FailureSurfaced ==
    [][ \A r \in Runs :
          /\ (~reachable /\ pc[r] = "jobs" /\ fetched'[r] = fetched[r] + 1)
                => pc'[r] # "mark"
          /\ (~reachable /\ pc[r] = "mark") => pc'[r] # "jobs"
      ]_vars

\* C5: a further mark_job_seen for a job_id that has a record leaves the
\* record's created_at and first_seen_date as they were and does not move
\* last_seen back.
C5_FirstSeenKept ==
    [][ \A d \in store : \A e \in store' :
          e._id = d._id =>
              /\ e.created_at = d.created_at
              /\ e.first_seen_date = d.first_seen_date
              /\ e.last_seen >= d.last_seen
      ]_vars

\* C6: however two overlapping runs interleave their mark_job_seen of one
\* job_id, the collection holds one record of it, every field of which is
\* from one write.
C6_OneRecordPerJob ==
    \A id \in JobIds :
        /\ Cardinality(Matching(id)) <= 1
        /\ \A d \in Matching(id) :
             \E r \in Runs : \E j \in Jobs(r) :
                 d = SetFields(d, job_record(j, d.created_at, d.last_seen,
                                             d.first_seen_date))

\* C7: every job handed to send_email was taken as new by this run, and
\* this run's mark_job_seen had written its record before the call.
C7_RecordedBeforeSend ==
    \A r \in Runs :
        /\ Handed(r) \subseteq IdsOf(new_jobs[r])
        /\ Handed(r) \subseteq written[r]

\* C8: in every stored record, created_at <= last_seen and
\* first_seen_date <= last_seen.
C8_FirstSeenNotAfterLastSeen ==
    \A d \in store :
        /\ d.created_at <= d.last_seen
        /\ d.first_seen_date <= d.last_seen

\* position of the first job of the list with this id
FirstIndex(jobs, id) ==
    CHOOSE i \in 1..Len(jobs) :
        /\ jobs[i].id_icims = id
        /\ \A j \in 1..(i - 1) : jobs[j].id_icims # id

\* C9: the list a run passes to send_email holds each id_icims of new_jobs
\* once, in the order of first appearance, and send_email is called exactly
\* when that list is not empty: once, at the end of the run.
C9_UniqueInOrderOnce ==
    \A r \in Runs :
        /\ pc[r] # "done" => sent[r] = <<>>
        /\ pc[r] = "done" =>
             /\ Len(sent[r]) = (IF new_jobs[r] = <<>> THEN 0 ELSE 1)
             /\ \A k \in 1..Len(sent[r]) :
                  LET L == sent[r][k].jobs IN
                  /\ IdsOf(L) = IdsOf(new_jobs[r])
                  /\ \A i, j \in 1..Len(L) :
                       i < j => /\ L[i].id_icims # L[j].id_icims
                                /\ FirstIndex(new_jobs[r], L[i].id_icims)
                                     < FirstIndex(new_jobs[r], L[j].id_icims)
                  /\ \A i \in 1..Len(L) :
                       L[i] = new_jobs[r][FirstIndex(new_jobs[r], L[i].id_icims)]

\* a run has ended whose new_jobs listed a job twice and whose one call of
\* send_email got it once
C9_Witness ==
    \E r \in Runs :
        /\ pc[r] = "done"
        /\ Len(sent[r]) = 1
        /\ Len(new_jobs[r]) > Len(sent[r][1].jobs)

\* C10: after a run whose delivery failed, the jobs it recorded stay
\* recorded, and a run started after it ended hands none of them to
\* send_email within the retention window (stated, as C1, for the states in
\* which no window can have elapsed).
C10_LostNotRetried ==
    now < ExpireAfterSeconds =>
        \A r1 \in Runs :
            (Len(sent[r1]) > 0 /\ ~sent[r1][1].delivered) =>
                /\ \A id \in written[r1] : Matching(id) # {}
                /\ \A r2 \in Runs :
                     r1 \in began[r2] =>
                         Handed(r1) \cap written[r1] \cap Handed(r2) = {}

====
